---- MODULE Spec2Model ----
(***************************************************************************)
(* Cycle-cancelling minimum-cost flow (MarCodeQ/network-flows).            *)
(* A graph is a record [num_nodes, g]: num_nodes is the starting number of *)
(* nodes and g maps every node id 0..k-1 to its ordered adjacency list of  *)
(* edges [sink, capacity, weight].                                         *)
(***************************************************************************)
EXTENDS Integers, Sequences, FiniteSets, TLC

\* ------------------------------------------------------------------ bounds
MaxCap == 2

\* the loops of EdmondsKarp and CycleCancelling are followed for at most
\* MaxRounds augmentations each
MaxRounds == 40

\* std::numeric_limits<int>::max(), the "infinite" distance / initial bottleneck
INT_MAX == 2147483647

\* ------------------------------------------------------------------ Graph
Edge(sink, capacity, weight) == [sink |-> sink, capacity |-> capacity, weight |-> weight]

NewGraph(num_nodes) == [num_nodes |-> num_nodes, g |-> [i \in 0..(num_nodes - 1) |-> <<>>]]

getStartingNumNodes(G) == G.num_nodes

getNumNodes(G) == Cardinality(DOMAIN G.g)

getNodeAdjList(G, node) == G.g[node]

hasEdge(G, source, sink) ==
    \E i \in 1..Len(G.g[source]) : G.g[source][i].sink = sink

EdgeIndex(G, source, sink) ==
    CHOOSE i \in 1..Len(G.g[source]) : G.g[source][i].sink = sink

getEdge(G, source, sink) == G.g[source][EdgeIndex(G, source, sink)]

setEdgeCapacity(G, source, sink, capacity) ==
    [G EXCEPT !.g[source][EdgeIndex(G, source, sink)].capacity = capacity]

removeEdge(G, source, sink) ==
    LET i == EdgeIndex(G, source, sink)
        l == G.g[source]
    IN  [G EXCEPT !.g[source] = SubSeq(l, 1, i - 1) \o SubSeq(l, i + 1, Len(l))]

\* addEdge creates the endpoints that are the next free node id
addEdge(G, source, sink, capacity, weight) ==
    LET hi == IF source > sink THEN source ELSE sink
        k  == getNumNodes(G)
        g1 == [i \in 0..(IF hi >= k THEN hi ELSE k - 1) |->
                  IF i \in DOMAIN G.g THEN G.g[i] ELSE <<>>]
    IN  [G EXCEPT !.g = [g1 EXCEPT ![source] = Append(@, Edge(sink, capacity, weight))]]

\* addEdge throws invalid_argument: a negative or non-contiguous node id, a
\* negative capacity, or an edge that already exists
addEdgeThrows(G, source, sink, capacity) ==
    \/ source < 0 \/ sink < 0
    \/ source > getNumNodes(G) \/ sink > getNumNodes(G)
    \/ capacity < 0
    \/ (source \in DOMAIN G.g /\ hasEdge(G, source, sink))

\* every edge of G as <<source, edge>>, in node-id then adjacency order
RECURSIVE EdgesFrom(_, _)
EdgesFrom(G, source) ==
    IF source >= getNumNodes(G) THEN <<>>
    ELSE [i \in 1..Len(G.g[source]) |-> <<source, G.g[source][i]>>] \o EdgesFrom(G, source + 1)

EdgeList(G) == EdgesFrom(G, 0)

\* ------------------------------------------------------------ GraphUtils
RECURSIVE ResidualFold(_, _, _, _)
ResidualFold(graph, es, i, residual_graph) ==
    IF i > Len(es) THEN residual_graph
    ELSE LET source == es[i][1]
             e      == es[i][2]
         IN  IF e.capacity <= 0
             THEN ResidualFold(graph, es, i + 1, residual_graph)
             ELSE IF source < e.sink /\ hasEdge(graph, e.sink, source)
             THEN LET artificial_node == getNumNodes(residual_graph)
                      r1 == addEdge(residual_graph, source, artificial_node, e.capacity, e.weight)
                      r2 == addEdge(r1, artificial_node, e.sink, e.capacity, e.weight)
                  IN  ResidualFold(graph, es, i + 1, r2)
             ELSE ResidualFold(graph, es, i + 1,
                               addEdge(residual_graph, source, e.sink, e.capacity, e.weight))

\* mutant: the anti-parallel test never succeeds, every edge is added unchanged
GetResidualGraphNoSplit(graph) ==
    ResidualFold(NewGraph(getNumNodes(graph)), EdgeList(graph), 1, NewGraph(getNumNodes(graph)))

GetResidualGraph(graph) ==
    ResidualFold(graph, EdgeList(graph), 1, NewGraph(getNumNodes(graph)))

Reverse(s) == [i \in 1..Len(s) |-> s[Len(s) + 1 - i]]

InSeq(x, s) == \E i \in 1..Len(s) : s[i] = x

RECURSIVE RetrieveWalk(_, _, _)
RetrieveWalk(parent, path, tmp) ==
    IF tmp # -1 /\ ~InSeq(tmp, path)
    THEN RetrieveWalk(parent, Append(path, tmp), parent[tmp])
    ELSE path

RetrievePath(parent, start_node) ==
    Reverse(RetrieveWalk(parent, <<start_node>>, parent[start_node]))

Min(a, b) == IF a < b THEN a ELSE b

RECURSIVE ResidualCapacityLoop(_, _, _, _)
ResidualCapacityLoop(residual_graph, path, u, path_flow) ==
    IF u >= Len(path) THEN path_flow
    ELSE ResidualCapacityLoop(residual_graph, path, u + 1,
            Min(path_flow, getEdge(residual_graph, path[u], path[u + 1]).capacity))

\* mutant: the guard for paths of fewer than two nodes is missing
GetResidualCapacityNoGuard(residual_graph, path) ==
    ResidualCapacityLoop(residual_graph, path, 1, INT_MAX)

GetResidualCapacity(residual_graph, path) ==
    IF Len(path) <= 1 THEN 0
    ELSE ResidualCapacityLoop(residual_graph, path, 1, INT_MAX)

\* one iteration of the loop of SendFlowInPath on the pair (source, sink)
SendFlowInEdge(residual_graph, source, sink, flow) ==
    LET edge     == getEdge(residual_graph, source, sink)
        weight   == edge.weight
        capacity == IF weight < 0 THEN edge.capacity + flow ELSE edge.capacity - flow
        r1 == setEdgeCapacity(residual_graph, source, sink, capacity)
        r2 == IF getEdge(r1, source, sink).capacity = 0 THEN removeEdge(r1, source, sink) ELSE r1
    IN  IF ~hasEdge(r2, sink, source)
        THEN addEdge(r2, sink, source, flow, -weight)
        ELSE setEdgeCapacity(r2, sink, source, getEdge(r2, sink, source).capacity + flow)

\* the iteration throws: the edge is missing (getEdge), or a forward edge is
\* smaller than the flow
SendFlowThrows(residual_graph, source, sink, flow) ==
    \/ ~hasEdge(residual_graph, source, sink)
    \/ LET edge == getEdge(residual_graph, source, sink)
       IN  edge.weight >= 0 /\ edge.capacity < flow

\* the iteration adds flow to an int capacity beyond INT_MAX: signed overflow,
\* which is undefined behaviour. The capacity of the reverse edge is read after
\* the traversed edge was updated and, at capacity 0, removed: on a self-loop
\* the reverse edge is the traversed edge itself.
SendFlowOverflows(residual_graph, source, sink, flow) ==
    LET edge == getEdge(residual_graph, source, sink)
    IN  IF edge.weight < 0 /\ edge.capacity > INT_MAX - flow THEN TRUE
        ELSE LET capacity == IF edge.weight < 0 THEN edge.capacity + flow
                                                ELSE edge.capacity - flow
                 r1 == setEdgeCapacity(residual_graph, source, sink, capacity)
                 r2 == IF getEdge(r1, source, sink).capacity = 0
                       THEN removeEdge(r1, source, sink) ELSE r1
             IN  /\ hasEdge(r2, sink, source)
                 /\ getEdge(r2, sink, source).capacity > INT_MAX - flow

\* result [graph, status]: status is "ok", "thrown" (an exception leaves the
\* loop, the graph is as the earlier iterations left it) or "undefined"
RECURSIVE SendFlowLoop(_, _, _, _)
SendFlowLoop(residual_graph, path, u, flow) ==
    IF u >= Len(path) THEN [graph |-> residual_graph, status |-> "ok"]
    ELSE IF SendFlowThrows(residual_graph, path[u], path[u + 1], flow)
    THEN [graph |-> residual_graph, status |-> "thrown"]
    ELSE IF SendFlowOverflows(residual_graph, path[u], path[u + 1], flow)
    THEN [graph |-> residual_graph, status |-> "undefined"]
    ELSE SendFlowLoop(SendFlowInEdge(residual_graph, path[u], path[u + 1], flow),
                      path, u + 1, flow)

\* path->size() - 1 is unsigned: on an empty path the loop runs and at(0) throws
SendFlowInPath(residual_graph, path, flow) ==
    IF Len(path) = 0 THEN [graph |-> residual_graph, status |-> "thrown"]
    ELSE SendFlowLoop(residual_graph, path, 1, flow)

\* GetOptimalGraph, first loop: the negative-cost edges leaving the original nodes
RECURSIVE OptimalFold(_, _, _, _)
OptimalFold(residual_graph, es, i, acc) ==
    IF i > Len(es) \/ acc.thrown THEN acc
    ELSE LET source == es[i][1]
             e      == es[i][2]
         IN  IF source >= getStartingNumNodes(residual_graph) \/ e.weight >= 0
             THEN OptimalFold(residual_graph, es, i + 1, acc)
             ELSE LET from == IF e.sink >= getStartingNumNodes(residual_graph)
                              THEN getNodeAdjList(residual_graph, e.sink)[1].sink
                              ELSE e.sink
                  IN  IF addEdgeThrows(acc.graph, from, source, e.capacity)
                      THEN [acc EXCEPT !.thrown = TRUE]
                      ELSE OptimalFold(residual_graph, es, i + 1,
                              [acc EXCEPT !.graph = addEdge(@, from, source, e.capacity, -e.weight)])

\* GetOptimalGraph, second loop: the original edges not yet in the optimal graph
RECURSIVE ZeroFlowFold(_, _, _)
ZeroFlowFold(es, i, acc) ==
    IF i > Len(es) \/ acc.thrown THEN acc
    ELSE LET source == es[i][1]
             e      == es[i][2]
         IN  IF hasEdge(acc.graph, source, e.sink)
             THEN ZeroFlowFold(es, i + 1, acc)
             ELSE ZeroFlowFold(es, i + 1,
                     [acc EXCEPT !.graph = addEdge(@, source, e.sink, 0, e.weight)])

\* result [graph, thrown]
GetOptimalGraph(residual_graph, graph) ==
    ZeroFlowFold(EdgeList(graph), 1,
        OptimalFold(residual_graph, EdgeList(residual_graph), 1,
            [graph |-> NewGraph(getStartingNumNodes(residual_graph)), thrown |-> FALSE]))

\* --------------------------------------------------- GraphBaseAlgorithms
\* breadth-first search over the edges of positive capacity; st = [parent, visited, queue]
RECURSIVE BFSVisit(_, _, _, _)
BFSVisit(G, u, i, st) ==
    IF i > Len(G.g[u]) THEN st
    ELSE LET e == G.g[u][i]
         IN  IF e.capacity > 0 /\ e.sink \notin st.visited
             THEN BFSVisit(G, u, i + 1,
                     [parent  |-> [st.parent EXCEPT ![e.sink] = u],
                      visited |-> st.visited \cup {e.sink},
                      queue   |-> Append(st.queue, e.sink)])
             ELSE BFSVisit(G, u, i + 1, st)

RECURSIVE BFSLoop(_, _)
BFSLoop(G, st) ==
    IF st.queue = <<>> THEN st
    ELSE BFSLoop(G, BFSVisit(G, Head(st.queue), 1, [st EXCEPT !.queue = Tail(@)]))

BFS(G, source) ==
    BFSLoop(G, [parent  |-> [i \in DOMAIN G.g |-> -1],
                visited |-> {source},
                queue   |-> <<source>>])

\* one relaxation pass over all edges; st = [dist, parent]
RECURSIVE RelaxPass(_, _, _)
RelaxPass(es, i, st) ==
    IF i > Len(es) THEN st
    ELSE LET u == es[i][1]
             v == es[i][2].sink
             w == es[i][2].weight
         IN  IF st.dist[u] # INT_MAX /\ st.dist[u] + w < st.dist[v]
             THEN RelaxPass(es, i + 1, [dist   |-> [st.dist EXCEPT ![v] = st.dist[u] + w],
                                        parent |-> [st.parent EXCEPT ![v] = u]])
             ELSE RelaxPass(es, i + 1, st)

RECURSIVE RelaxRounds(_, _, _)
RelaxRounds(es, rounds, st) ==
    IF rounds = 0 THEN st ELSE RelaxRounds(es, rounds - 1, RelaxPass(es, 1, st))

\* the edges that still improve a distance on the extra round
Improving(es, st) ==
    {i \in 1..Len(es) : /\ st.dist[es[i][1]] # INT_MAX
                        /\ st.dist[es[i][1]] + es[i][2].weight < st.dist[es[i][2].sink]}

\* result [hasNegativeCycle, negativeCycle, dist]
BellmanFord(G, source) ==
    LET es == EdgeList(G)
        st == RelaxRounds(es, getNumNodes(G) - 1,
                 [dist   |-> [i \in DOMAIN G.g |-> IF i = source THEN 0 ELSE INT_MAX],
                  parent |-> [i \in DOMAIN G.g |-> -1]])
        imp == Improving(es, st)
    IN  IF imp = {}
        THEN [hasNegativeCycle |-> FALSE, negativeCycle |-> <<>>, dist |-> st.dist]
        ELSE LET i == CHOOSE j \in imp : \A k \in imp : j <= k
             IN  [hasNegativeCycle |-> TRUE,
                  negativeCycle    |-> RetrievePath(st.parent, es[i][2].sink),
                  dist             |-> st.dist]

\* ------------------------------------------------ MinimumCostFlowAlgorithms
RECURSIVE CostFold(_, _)
CostFold(es, i) ==
    IF i > Len(es) THEN 0
    ELSE (IF es[i][2].weight < 0 THEN (-es[i][2].weight) * es[i][2].capacity ELSE 0)
         + CostFold(es, i + 1)

\* the "get minimum cost" loop of CycleCancelling
MinimumCost(residual_graph) == CostFold(EdgeList(residual_graph), 1)

\* the EdmondsKarp loop: one breadth-first search from source
AugmentingPath(residual_graph, source, sink) ==
    LET bfs == BFS(residual_graph, source)
    IN  IF sink \in bfs.visited THEN RetrievePath(bfs.parent, sink) ELSE <<>>

\* ------------------------------------------------------------ the inputs
\* An input graph is an edge list (source, sink, weight) handed to addEdge in
\* order, as CreateGraphFromJSON does; each edge gets a capacity in 0..MaxCap.

Skeletons ==
    { [n |-> 4, edges |-> << <<0, 1, 1>>, <<0, 2, 2>>, <<1, 3, 2>>, <<2, 3, 1>> >>],
      [n |-> 3, edges |-> << <<0, 1, 1>>, <<1, 0, 1>>, <<1, 2, 0>>, <<2, 1, 2>>, <<0, 2, 3>> >>],
      [n |-> 5, edges |-> << <<0, 1, 1>>, <<1, 2, 3>>, <<1, 3, 1>>, <<3, 2, 1>>, <<2, 4, 0>> >>],
      [n |-> 4, edges |-> << <<0, 1, 1>>, <<0, 2, 1>>, <<2, 0, 1>>, <<1, 2, 1>>,
                             <<1, 3, 2>>, <<3, 1, 1>>, <<2, 3, 1>> >>],
      [n |-> 5, edges |-> << <<0, 2, 2>>, <<0, 3, 0>>, <<1, 4, 0>>, <<2, 1, 1>>,
                             <<2, 3, 0>>, <<3, 1, 0>>, <<3, 2, 1>> >>] }

RECURSIVE BuildGraph(_, _, _, _)
BuildGraph(edges, caps, i, G) ==
    IF i > Len(edges) THEN G
    ELSE BuildGraph(edges, caps, i + 1,
            addEdge(G, edges[i][1], edges[i][2], caps[i], edges[i][3]))

InputGraphs(sk) ==
    { BuildGraph(sk.edges, caps, 1, NewGraph(sk.n)) : caps \in [1..Len(sk.edges) -> 0..MaxCap] }

\* ------------------------------------------------------------ the state
VARIABLES graph,            \* the input graph of the current run
          residual_graph,   \* the residual graph the run mutates
          fresh,            \* the residual graph as GetResidualGraph built it
          before,           \* the residual graph before the last SendFlowInPath
          path,             \* the last path or cycle handed to GraphUtils
          flow,             \* the last result of GetResidualCapacity / flow sent
          pc,               \* position of the caller
          max_flow,         \* flow value accumulated by EdmondsKarp
          minimum_cost,     \* result of CycleCancelling
          optimal_graph,    \* result of GetOptimalGraph
          augmentations,    \* [ek, cc]: SendFlowInPath calls of the current run
          run               \* 1, or 2 when CycleCancelling runs on its own output

vars == <<graph, residual_graph, fresh, before, path, flow, pc, max_flow, minimum_cost,
          optimal_graph, augmentations, run>>

NoGraph == NewGraph(0)

Source == 0
Sink == getNumNodes(graph) - 1

Init ==
    /\ \E sk \in Skeletons : graph \in InputGraphs(sk)
    /\ residual_graph = NoGraph
    /\ fresh = NoGraph
    /\ before = NoGraph
    /\ path = <<>>
    /\ flow = 0
    /\ pc = "start"
    /\ max_flow = 0
    /\ minimum_cost = 0
    /\ optimal_graph = [graph |-> NoGraph, thrown |-> FALSE]
    /\ augmentations = [ek |-> 0, cc |-> 0]
    /\ run = 1

\* EdmondsKarp builds the residual graph
EKBuild ==
    /\ pc = "start"
    /\ residual_graph' = GetResidualGraph(graph)
    /\ fresh' = GetResidualGraph(graph)
    /\ pc' = "ek"
    /\ UNCHANGED <<graph, before, path, flow, max_flow, minimum_cost, optimal_graph,
                   augmentations, run>>

\* one round of the EdmondsKarp loop that finds an augmenting path
EKAugment ==
    /\ pc = "ek"
    /\ augmentations.ek < MaxRounds
    /\ LET p    == AugmentingPath(residual_graph, Source, Sink)
           f    == GetResidualCapacity(residual_graph, p)
           sent == SendFlowInPath(residual_graph, p, f)
       IN  /\ p # <<>>
           /\ path' = p
           /\ flow' = f
           /\ before' = residual_graph
           /\ residual_graph' = sent.graph
           /\ pc' = IF sent.status = "ok" THEN "ek" ELSE sent.status
           /\ max_flow' = max_flow + f
    /\ augmentations' = [augmentations EXCEPT !.ek = @ + 1]
    /\ UNCHANGED <<graph, fresh, minimum_cost, optimal_graph, run>>

\* the round that finds the sink unreachable: EdmondsKarp returns
EKReturn ==
    /\ pc = "ek"
    /\ AugmentingPath(residual_graph, Source, Sink) = <<>>
    /\ pc' = "cc"
    /\ UNCHANGED <<graph, residual_graph, fresh, before, path, flow, max_flow, minimum_cost,
                   optimal_graph, augmentations, run>>

\* one iteration of the while loop of CycleCancelling
CancelCycle ==
    /\ pc = "cc"
    /\ augmentations.cc < MaxRounds
    /\ LET bf   == BellmanFord(residual_graph, Source)
           f    == GetResidualCapacity(residual_graph, bf.negativeCycle)
           sent == SendFlowInPath(residual_graph, bf.negativeCycle, f)
       IN  /\ bf.hasNegativeCycle
           /\ path' = bf.negativeCycle
           /\ flow' = f
           /\ before' = residual_graph
           /\ residual_graph' = sent.graph
           /\ pc' = IF sent.status = "ok" THEN "cc" ELSE sent.status
    /\ augmentations' = [augmentations EXCEPT !.cc = @ + 1]
    /\ UNCHANGED <<graph, fresh, max_flow, minimum_cost, optimal_graph, run>>

\* no negative cycle is left: CycleCancelling sums the cost and returns
CCReturn ==
    /\ pc = "cc"
    /\ ~BellmanFord(residual_graph, Source).hasNegativeCycle
    /\ minimum_cost' = MinimumCost(residual_graph)
    /\ pc' = "done"
    /\ UNCHANGED <<graph, residual_graph, fresh, before, path, flow, max_flow,
                   optimal_graph, augmentations, run>>

\* the caller maps the final residual graph back onto the original edges
ExtractOptimal ==
    /\ pc = "done" /\ run = 1
    /\ optimal_graph' = GetOptimalGraph(residual_graph, graph)
    /\ pc' = "extracted"
    /\ UNCHANGED <<graph, residual_graph, fresh, before, path, flow, max_flow,
                   minimum_cost, augmentations, run>>

\* CycleCancelling is called again on the residual graph it returned
Rerun ==
    /\ pc = "extracted" /\ run = 1
    /\ graph' = residual_graph
    /\ run' = 2
    /\ pc' = "start"
    /\ max_flow' = 0
    /\ minimum_cost' = 0
    /\ augmentations' = [ek |-> 0, cc |-> 0]
    /\ UNCHANGED <<residual_graph, fresh, before, path, flow, optimal_graph>>

Next == EKBuild \/ EKAugment \/ EKReturn \/ CancelCycle \/ CCReturn \/ ExtractOptimal \/ Rerun

Spec == Init /\ [][Next]_vars

\* ------------------------------------------ GetResidualGraph on its own
\* every graph on three nodes: each ordered pair, in the order of BuildPairs,
\* is an edge or not, with a capacity in 0..MaxCap
BuildPairs == << <<1, 0, 1>>, <<0, 1, 2>>, <<0, 2, 0>>, <<2, 0, 1>>, <<2, 1, 3>>, <<1, 2, 1>> >>

RECURSIVE BuildSome(_, _, _, _)
BuildSome(present, caps, i, G) ==
    IF i > Len(BuildPairs) THEN G
    ELSE BuildSome(present, caps, i + 1,
            IF i \in present
            THEN addEdge(G, BuildPairs[i][1], BuildPairs[i][2], caps[i], BuildPairs[i][3])
            ELSE G)

InitBuild ==
    /\ \E present \in SUBSET (1..Len(BuildPairs)) :
          \E caps \in [present -> 0..MaxCap] :
             graph = BuildSome(present, caps, 1, NewGraph(3))
    /\ residual_graph = NoGraph
    /\ fresh = NoGraph
    /\ before = NoGraph
    /\ path = <<>>
    /\ flow = 0
    /\ pc = "start"
    /\ max_flow = 0
    /\ minimum_cost = 0
    /\ optimal_graph = [graph |-> NoGraph, thrown |-> FALSE]
    /\ augmentations = [ek |-> 0, cc |-> 0]
    /\ run = 1

SpecBuild == InitBuild /\ [][EKBuild]_vars

\* ------------------------------------ GraphUtils called on its own (PathOps)
\* The residual graphs handed to the path operations: freshly built ones and
\* the ones one augmentation along a bottleneck path leaves.
OpsSkeleton == [n |-> 3, edges |-> << <<0, 1, 1>>, <<1, 2, 0>>, <<0, 2, 2>>, <<2, 1, 1>> >>]

\* the node sequences of at most as many nodes as G has
NodeSeqs(G) == UNION { [1..k -> DOMAIN G.g] : k \in 0..getNumNodes(G) }

\* p is a path of G: every consecutive pair is an existing edge
IsPath(G, p) == \A i \in 1..(Len(p) - 1) : hasEdge(G, p[i], p[i + 1])

PathsOf(G) == {p \in NodeSeqs(G) : IsPath(G, p)}

OpsFresh ==
    { GetResidualGraph(BuildGraph(OpsSkeleton.edges, caps, 1, NewGraph(OpsSkeleton.n))) :
        caps \in [1..Len(OpsSkeleton.edges) -> 0..MaxCap] }

OpsGraphs ==
    OpsFresh \cup
    UNION { { SendFlowInPath(G, p, GetResidualCapacity(G, p)).graph :
                p \in {q \in PathsOf(G) : Len(q) = 3 /\ q[1] # q[3]} } : G \in OpsFresh }

InitOps ==
    /\ residual_graph \in OpsGraphs
    /\ graph = NoGraph
    /\ fresh = residual_graph
    /\ before = residual_graph
    /\ path = <<>>
    /\ flow = 0
    /\ pc = "ops"
    /\ max_flow = 0
    /\ minimum_cost = 0
    /\ optimal_graph = [graph |-> NoGraph, thrown |-> FALSE]
    /\ augmentations = [ek |-> 0, cc |-> 0]
    /\ run = 1

\* GetResidualCapacity(residual_graph, p) for a path p
CallResidualCapacity ==
    /\ pc = "ops"
    /\ \E p \in PathsOf(residual_graph) :
          /\ path' = p
          /\ flow' = GetResidualCapacity(residual_graph, p)
    /\ pc' = "measured"
    /\ UNCHANGED <<graph, residual_graph, fresh, before, max_flow, minimum_cost,
                   optimal_graph, augmentations, run>>

\* SendFlowInPath(residual_graph, p, f) for a path p of two or more nodes and
\* a flow f that does not exceed its bottleneck
CallSendFlowInPath ==
    /\ pc = "ops"
    /\ \E p \in PathsOf(residual_graph) :
          /\ Len(p) >= 2
          /\ \E f \in 0..GetResidualCapacity(residual_graph, p) :
                LET sent == SendFlowInPath(residual_graph, p, f)
                IN  /\ path' = p
                    /\ flow' = f
                    /\ before' = residual_graph
                    /\ residual_graph' = sent.graph
                    /\ pc' = IF sent.status = "ok" THEN "sent" ELSE sent.status
    /\ UNCHANGED <<graph, fresh, max_flow, minimum_cost, optimal_graph, augmentations, run>>

NextOps == CallResidualCapacity \/ CallSendFlowInPath

SpecOps == InitOps /\ [][NextOps]_vars

\* ------------------------------------------------------------ properties
\* capacity of the edge a -> b, an absent edge counting as 0
Cap(G, a, b) ==
    IF a \in DOMAIN G.g /\ b \in DOMAIN G.g /\ hasEdge(G, a, b)
    THEN getEdge(G, a, b).capacity ELSE 0

\* the capacities of the consecutive edges of p
CapsOnPath(G, p) == {getEdge(G, p[i], p[i + 1]).capacity : i \in 1..(Len(p) - 1)}

\* the nodes reachable from s over edges of positive capacity
RECURSIVE ReachFrom(_, _)
ReachFrom(G, seen) ==
    LET more == {v \in DOMAIN G.g : \E u \in seen : Cap(G, u, v) > 0}
    IN  IF more \subseteq seen THEN seen ELSE ReachFrom(G, seen \cup more)

Reachable(G, s, t) == t \in ReachFrom(G, {s})

\* sum of a sequence of integers
RECURSIVE SumSeq(_)
SumSeq(xs) == IF xs = <<>> THEN 0 ELSE Head(xs) + SumSeq(Tail(xs))

\* capacity of the cut (S, complement of S) of G
CutCapacity(G, S) ==
    LET es == EdgeList(G)
    IN  SumSeq([i \in 1..Len(es) |->
                  IF es[i][1] \in S /\ es[i][2].sink \notin S THEN es[i][2].capacity ELSE 0])

MinCutCapacity(G, s, t) ==
    LET cuts == {CutCapacity(G, S \cup {s}) : S \in SUBSET (DOMAIN G.g \ {s, t})}
    IN  CHOOSE c \in cuts : \A d \in cuts : c <= d

\* the feasible flows of G from s to t: a flow per edge of EdgeList(G), within
\* the capacity, conserved at every node but s and t
FeasibleFlows(G, s, t) ==
    LET es == EdgeList(G)
        m  == Len(es)
        into(f, v) == SumSeq([i \in 1..m |-> IF es[i][2].sink = v THEN f[i] ELSE 0])
        from(f, v) == SumSeq([i \in 1..m |-> IF es[i][1] = v THEN f[i] ELSE 0])
    IN  {f \in [1..m -> 0..MaxCap] :
            /\ \A i \in 1..m : f[i] <= es[i][2].capacity
            /\ \A v \in DOMAIN G.g \ {s, t} : into(f, v) = from(f, v)}

FlowValue(G, s, f) ==
    LET es == EdgeList(G)
    IN  SumSeq([i \in 1..Len(es) |->
                  IF es[i][1] = s THEN f[i] ELSE IF es[i][2].sink = s THEN -f[i] ELSE 0])

FlowCost(G, f) ==
    LET es == EdgeList(G)
    IN  SumSeq([i \in 1..Len(es) |-> f[i] * es[i][2].weight])

\* the least cost of a feasible flow of maximum value
MinCostOfMaxFlow(G, s, t) ==
    LET flows  == FeasibleFlows(G, s, t)
        values == {FlowValue(G, s, f) : f \in flows}
        best   == CHOOSE v \in values : \A w \in values : w <= v
        costs  == {FlowCost(G, f) : f \in {h \in flows : FlowValue(G, s, h) = best}}
    IN  CHOOSE c \in costs : \A d \in costs : c <= d

\* C1: the minimum cost CycleCancelling reports is the least total cost of a
\* feasible flow of maximum value from node 0 to the last node.
C1_CostOptimal ==
    (run = 1 /\ pc = "done") => minimum_cost = MinCostOfMaxFlow(graph, Source, Sink)

\* C2: EdmondsKarp returns with the sink unreachable from the source in the
\* residual graph, and the flow value it returns is the capacity of a minimum
\* source-sink cut of the input graph.
C2_MaxFlowMinCut ==
    /\ (run = 1 /\ pc = "ek") => augmentations.ek < MaxRounds
    /\ (run = 1 /\ pc = "cc" /\ augmentations.cc = 0) =>
          /\ ~Reachable(residual_graph, Source, Sink)
          /\ max_flow = MinCutCapacity(graph, Source, Sink)

\* least cost of a walk of 1..k edges from u to v in G, INT_MAX when there is none
RECURSIVE WalkCost(_, _)
WalkCost(G, k) ==
    LET N == DOMAIN G.g
    IN  IF k = 1
        THEN [u \in N, v \in N |-> IF hasEdge(G, u, v) THEN getEdge(G, u, v).weight ELSE INT_MAX]
        ELSE LET W == WalkCost(G, k - 1) @@ <<>>   \* tabulated once
             IN  [u \in N, v \in N |->
                    LET via == {W[u, x] + getEdge(G, x, v).weight :
                                  x \in {y \in N : W[u, y] # INT_MAX /\ hasEdge(G, y, v)}}
                        all == via \cup {W[u, v]}
                    IN  CHOOSE c \in all : \A d \in all : c <= d]

\* G has a cycle of negative cost through a node that s reaches
NegativeCycleReachable(G, s) ==
    LET W == WalkCost(G, getNumNodes(G)) @@ <<>>
    IN  \E v \in DOMAIN G.g : /\ v = s \/ W[s, v] # INT_MAX
                              /\ W[v, v] < 0

\* C3: the loop of CycleCancelling ends by finding no negative cycle, and the
\* residual graph then has no negative-cost cycle reachable from the source.
C3_CancelTerminates ==
    run = 1 =>
        /\ pc \in {"undefined", "thrown"} => augmentations.cc = 0
        /\ pc = "cc" => augmentations.cc < MaxRounds
        /\ pc = "done" => ~NegativeCycleReachable(residual_graph, Source)

\* flow that GetOptimalGraph reports on the original edge u -> v
ReportedFlow(u, v) == Cap(optimal_graph.graph, u, v)

\* C4: the minimum cost CycleCancelling reports is the sum over the original
\* edges of flow * cost, the flow taken from the graph GetOptimalGraph returns.
C4_CostMatchesOptimalGraph ==
    pc = "extracted" =>
        /\ ~optimal_graph.thrown
        /\ LET es == EdgeList(graph)
           IN  minimum_cost =
                 SumSeq([i \in 1..Len(es) |-> ReportedFlow(es[i][1], es[i][2].sink) * es[i][2].weight])

\* the first residual edge that stands for the original edge u -> v: u -> v
\* itself, or u -> w when GetResidualGraph split it through w
FirstHop(u, v) ==
    IF u < v /\ hasEdge(graph, v, u)
    THEN CHOOSE w \in DOMAIN fresh.g :
            /\ w >= getNumNodes(graph)
            /\ hasEdge(fresh, u, w)
            /\ hasEdge(fresh, w, v)
    ELSE v

\* flow the residual graph carries on the original edge u -> v: what its
\* capacity lost since GetResidualGraph built it
CarriedFlow(u, v) ==
    IF getEdge(graph, u, v).capacity = 0 THEN 0
    ELSE Cap(fresh, u, FirstHop(u, v)) - Cap(residual_graph, u, FirstHop(u, v))

\* C7: GetOptimalGraph returns a graph over the original nodes, without
\* self-loops, with exactly one edge per original edge, same endpoints and
\* cost, whose capacity is the flow the original edge carries.
C7_OptimalGraph ==
    pc = "extracted" =>
        /\ ~optimal_graph.thrown
        /\ DOMAIN optimal_graph.graph.g = DOMAIN graph.g
        /\ \A u \in DOMAIN graph.g :
              /\ Len(optimal_graph.graph.g[u]) = Len(graph.g[u])
              /\ ~hasEdge(optimal_graph.graph, u, u)
              /\ \A i \in 1..Len(graph.g[u]) :
                    LET e == graph.g[u][i]
                    IN  /\ hasEdge(optimal_graph.graph, u, e.sink)
                        /\ getEdge(optimal_graph.graph, u, e.sink).weight = e.weight
                        /\ ReportedFlow(u, e.sink) = CarriedFlow(u, e.sink)
                        /\ ReportedFlow(u, e.sink) >= 0
                        /\ ReportedFlow(u, e.sink) <= e.capacity

\* C8: a second CycleCancelling, on the residual graph the first returned,
\* performs no augmentation.
C8_Idempotent ==
    run = 2 => augmentations = [ek |-> 0, cc |-> 0]

\* flow on the i-th edge of the freshly built residual graph
FlowOn(i) ==
    LET es == EdgeList(fresh)
    IN  es[i][2].capacity - Cap(residual_graph, es[i][1], es[i][2].sink)

Inflow(v) ==
    LET es == EdgeList(fresh)
    IN  SumSeq([i \in 1..Len(es) |-> IF es[i][2].sink = v THEN FlowOn(i) ELSE 0])

Outflow(v) ==
    LET es == EdgeList(fresh)
    IN  SumSeq([i \in 1..Len(es) |-> IF es[i][1] = v THEN FlowOn(i) ELSE 0])

\* C10: after EdmondsKarp returns and after every augmentation of the
\* CycleCancelling loop, the flow is conserved at every node but source and
\* sink, lies within the capacities, and its value is max_flow.
C10_FlowConservation ==
    (run = 1 /\ pc = "cc") =>
        /\ \A v \in DOMAIN fresh.g \ {Source, Sink} : Inflow(v) = Outflow(v)
        /\ \A i \in 1..Len(EdgeList(fresh)) :
              FlowOn(i) >= 0 /\ FlowOn(i) <= EdgeList(fresh)[i][2].capacity
        /\ Outflow(Source) - Inflow(Source) = max_flow

\* C5: a single SendFlowInPath along a path with a flow within its bottleneck
\* leaves capacity(a->b) + capacity(b->a) unchanged for every traversed pair
\* (a,b), whatever the sign of the traversed edge's cost.
C5_CapacityConserving ==
    pc = "sent" =>
        \A i \in 1..(Len(path) - 1) :
            Cap(residual_graph, path[i], path[i + 1]) + Cap(residual_graph, path[i + 1], path[i])
            = Cap(before, path[i], path[i + 1]) + Cap(before, path[i + 1], path[i])

\* the original edge u -> e.sink is one that GetResidualGraph splits
IsSplit(u, e) == e.capacity > 0 /\ u < e.sink /\ hasEdge(graph, e.sink, u)

\* the artificial nodes w with u -> w -> v in the fresh residual graph, both
\* edges with the capacity and cost of e
Bridges(u, e) ==
    {w \in DOMAIN fresh.g :
        /\ w >= getNumNodes(graph)
        /\ fresh.g[w] = <<Edge(e.sink, e.capacity, e.weight)>>
        /\ hasEdge(fresh, u, w)
        /\ getEdge(fresh, u, w) = Edge(w, e.capacity, e.weight)
        /\ \A x \in DOMAIN fresh.g \ {u} : ~hasEdge(fresh, x, w)}

\* C6: the graph GetResidualGraph returns has no pair of nodes joined in both
\* directions; the edge u -> v of an anti-parallel pair with u < v becomes
\* u -> w -> v through a fresh node w of its own, every other edge of positive
\* capacity is added unchanged, and edges of capacity 0 are left out.
C6_ResidualGraph ==
    pc = "ek" =>
        LET es == EdgeList(graph)
            split == {i \in 1..Len(es) : IsSplit(es[i][1], es[i][2])}
            plain == {i \in 1..Len(es) : es[i][2].capacity > 0 /\ i \notin split}
        IN  /\ \A a \in DOMAIN fresh.g : \A b \in DOMAIN fresh.g \ {a} :
                  ~(hasEdge(fresh, a, b) /\ hasEdge(fresh, b, a))
            /\ \A i \in split :
                  /\ Cardinality(Bridges(es[i][1], es[i][2])) = 1
                  /\ ~hasEdge(fresh, es[i][1], es[i][2].sink)
            /\ \A i \in plain :
                  /\ hasEdge(fresh, es[i][1], es[i][2].sink)
                  /\ getEdge(fresh, es[i][1], es[i][2].sink) = es[i][2]
            /\ getNumNodes(fresh) = getNumNodes(graph) + Cardinality(split)
            /\ Len(EdgeList(fresh)) = Cardinality(plain) + 2 * Cardinality(split)

\* C6 witness: two anti-parallel pairs of positive capacity were split through
\* two artificial nodes
C6_Witness ==
    /\ pc = "ek"
    /\ getNumNodes(fresh) = getNumNodes(graph) + 2
    /\ \E u \in DOMAIN graph.g : \E v \in DOMAIN graph.g :
          /\ u < v
          /\ Cap(graph, u, v) > 0 /\ Cap(graph, v, u) > 0
          /\ ~hasEdge(fresh, u, v)
          /\ Cap(fresh, v, u) = Cap(graph, v, u)

\* C9: GetResidualCapacity returns 0 for a path of 0 or 1 nodes and the minimum
\* capacity over the consecutive edges of a longer path, and leaves the
\* residual graph as it was.
C9_Bottleneck ==
    pc = "measured" =>
        /\ Len(path) <= 1 => flow = 0
        /\ Len(path) >= 2 => /\ flow \in CapsOnPath(residual_graph, path)
                             /\ \A c \in CapsOnPath(residual_graph, path) : flow <= c
        /\ residual_graph = before

\* C9 witness: a three-node path whose second edge is the strict bottleneck
C9_Witness ==
    /\ pc = "measured"
    /\ Len(path) = 3
    /\ getEdge(residual_graph, path[2], path[3]).capacity
         < getEdge(residual_graph, path[1], path[2]).capacity
    /\ flow = getEdge(residual_graph, path[2], path[3]).capacity


\* cost of the edge a -> b of G, 0 for an absent edge
Cost(G, a, b) ==
    IF a \in DOMAIN G.g /\ b \in DOMAIN G.g /\ hasEdge(G, a, b)
    THEN getEdge(G, a, b).weight ELSE 0

\* C11: the node sequence BellmanFord returned and CycleCancelling augmented
\* is a closed negative cycle of the residual graph it was found in: every
\* consecutive pair is an edge, the sequence ends on its first node, and the
\* costs of its edges sum to less than 0.
C11_ClosedNegativeCycle ==
    (run = 1 /\ pc = "cc" /\ augmentations.cc > 0) =>
        /\ Len(path) >= 2
        /\ \A i \in 1..(Len(path) - 1) : hasEdge(before, path[i], path[i + 1])
        /\ path[1] = path[Len(path)]
        /\ SumSeq([i \in 1..(Len(path) - 1) |-> Cost(before, path[i], path[i + 1])]) < 0

\* C12: in every state between augmentations, of the first run and of a run
\* on the residual graph a first run returned, the residual graph has at most
\* one edge per ordered pair of nodes, every edge has a capacity above 0, and
\* the last augmentation made sent a flow above 0.
C12_PositiveCapacities ==
    pc \in {"ek", "cc", "done", "extracted"} =>
        /\ \A u \in DOMAIN residual_graph.g :
              \A i \in 1..Len(residual_graph.g[u]) :
                 /\ residual_graph.g[u][i].capacity > 0
                 /\ \A j \in 1..Len(residual_graph.g[u]) :
                       residual_graph.g[u][i].sink = residual_graph.g[u][j].sink => i = j
        /\ (augmentations.ek + augmentations.cc > 0) => flow > 0

====
